---- MODULE Spec2Model ----
(***************************************************************************)
(* A model of the live-stream statistics tracker: the stream-id            *)
(* normalisation of app.py and utils/scraper.py, the acquisition function  *)
(* scrape_jaco_data, the record normaliser and the aggregations of         *)
(* utils/data_processor.py, and the session handlers of app.py.            *)
(*                                                                         *)
(* Text is a sequence of one-character strings.  The platform host         *)
(* "jaco.live" is one symbol of such a sequence: it holds no "/", and the  *)
(* code only ever looks for it as a whole.                                 *)
(***************************************************************************)
EXTENDS Integers, Sequences, FiniteSets, TLC

VARIABLES
    stream_url,      \* main(): the text typed into the sidebar input
    main_stream_id,  \* main(): stream_id extracted from stream_url
    scr_stream_id,   \* scrape_jaco_data(): stream_id after its own cleaning
    norm_pc,         \* which of the two normalisations have run
    raw_data,        \* process_stream_data(): its argument raw_data
    proc_stream_id,  \* process_stream_data(): its argument stream_id
    processed,       \* process_stream_data(): what the call did
    now,             \* the wall clock, in seconds
    series,          \* aggregate_data(), calculate_growth_rates(): argument data
    interval,        \* aggregate_data(): its argument interval
    aggregated,      \* aggregate_data(): the frame returned
    growth,          \* calculate_growth_rates(): the dict returned
    acq_stream_id,   \* update_data(), scrape_jaco_data(): argument stream_id
    acq_response,    \* scrape_jaco_data(): the network's answer to line 44
    acq_result,      \* scrape_jaco_data(): the value returned, the steps taken
    session_state,   \* app.py: st.session_state
    calls,           \* app.py: the acquisition calls of the last script run
    connected,       \* main(): what the last check_connection() returned
    auto_refresh,    \* main(): the auto-refresh checkbox
    rerun,           \* main(): seconds slept before st.rerun(), 0 when the
                     \* last script run ended without st.rerun()
    refreshes        \* the last two acquisitions of the dashboard tab

normVars == <<stream_url, main_stream_id, scr_stream_id, norm_pc>>

procVars == <<raw_data, proc_stream_id, processed>>

aggVars == <<series, interval, aggregated, growth>>

acqVars == <<acq_stream_id, acq_response, acq_result>>

appVars == <<session_state, calls, connected, auto_refresh, rerun, refreshes>>

vars == <<normVars, procVars, now, aggVars, acqVars, appVars>>

----------------------------------------------------------------------------
(* Bounds of the model *)

\* longest text enumerated as a sidebar input
MaxLen == 5

\* last second of the wall clock
MaxClock == 2

\* longest frame handed to aggregate_data and calculate_growth_rates
MaxRows == 2

\* most records a session stores before the model stops its script runs
MaxData == 2

\* last second of a session's wall clock
MaxAppTime == 11

\* longest time, in seconds, the offline session lets pass after an update
MaxOffline == 120

----------------------------------------------------------------------------
(* Text helpers *)

Host == "jaco.live"

NotYet == [none |-> TRUE]

Min(S) == CHOOSE x \in S : \A y \in S : x <= y

Max(S) == CHOOSE x \in S : \A y \in S : x >= y

\* length of the longest run of non-"/" symbols of s starting at index i
RunLen(s, i) ==
    CHOOSE n \in 0..Len(s) :
        /\ \A k \in i..(i + n - 1) : k <= Len(s) /\ s[k] # "/"
        /\ (i + n > Len(s) \/ s[i + n] = "/")

\* re.search(r'jaco\.live/([^/]+)', s): the mutated pattern without the
\* optional second segment
SearchStreamIdOneSegment(s) ==
    LET starts == {i \in 1..Len(s) :
                      /\ s[i] = Host
                      /\ i + 2 <= Len(s)
                      /\ s[i + 1] = "/"
                      /\ s[i + 2] # "/"}
    IN  IF starts = {}
        THEN [matched |-> FALSE, group1 |-> <<>>]
        ELSE LET a == Min(starts) + 2
             IN  [matched |-> TRUE,
                  group1 |-> SubSeq(s, a, a + RunLen(s, a) - 1)]

\* re.search(r'jaco\.live/([^/]+(?:/[^/]+)?)', s): the leftmost match; both
\* [^/]+ are greedy, and the optional group is taken whenever it can match
SearchStreamId(s) ==
    LET starts == {i \in 1..Len(s) :
                      /\ s[i] = Host
                      /\ i + 2 <= Len(s)
                      /\ s[i + 1] = "/"
                      /\ s[i + 2] # "/"}
    IN  IF starts = {}
        THEN [matched |-> FALSE, group1 |-> <<>>]
        ELSE LET a == Min(starts) + 2
                 b == a + RunLen(s, a)
                 has2 == b + 1 <= Len(s) /\ s[b] = "/" /\ s[b + 1] # "/"
                 last == IF has2 THEN b + RunLen(s, b + 1) ELSE b - 1
             IN  [matched |-> TRUE, group1 |-> SubSeq(s, a, last)]

\* main(), app.py 307-316: the stream id of the sidebar input
MainStreamId(url) ==
    IF url # <<>>
    THEN LET url_match == SearchStreamId(url)
         IN  IF url_match.matched THEN url_match.group1 ELSE url
    ELSE <<>>

\* scrape_jaco_data(), scraper.py 26-29: the cleaning of its argument
Contains(s, c) == \E i \in 1..Len(s) : s[i] = c

CleanStreamId(stream_id) ==
    IF Contains(stream_id, Host)
    THEN LET match == SearchStreamId(stream_id)
         IN  IF match.matched THEN match.group1 ELSE stream_id
    ELSE stream_id

----------------------------------------------------------------------------
(* Python values.  A value carries its type: an int, a str (its text), None, *)
(* a list of two elements, or a dict (a function from its keys).             *)

PyInt(n) == [k |-> "int", v |-> n]

PyStr(s) == [k |-> "str", s |-> s]

PyNone == [k |-> "null"]

PyBool(b) == [k |-> "bool", v |-> b]

PyList2 == [k |-> "list"]

PyDict(d) == [k |-> "dict", d |-> d]

Absent == [k |-> "absent"]

EmptyDict == [x \in {} |-> PyNone]

\* one entry of a dict literal, or none
Entry(key, v) == IF v = Absent THEN EmptyDict ELSE key :> v

\* dict.get(key, default)
Get(d, key, default) == IF key \in DOMAIN d THEN d[key] ELSE default

\* needle in text, for two str
IsSubstring(needle, text) ==
    \E i \in 1..(Len(text) - Len(needle) + 1) :
        SubSeq(text, i, i + Len(needle) - 1) = needle

TestKey == <<"t", "e", "s", "t">>

NameX == <<"X">>

NameY == <<"Y">>

Unknown == <<"U", "n", "k", "n", "o", "w", "n">>

NameKey == <<"n", "a", "m", "e">>

----------------------------------------------------------------------------
(* The parts of the state a specification leaves alone *)

NormIdle ==
    /\ stream_url = <<>>
    /\ main_stream_id = NotYet
    /\ scr_stream_id = NotYet
    /\ norm_pc = "idle"

ProcIdle ==
    /\ raw_data = PyNone
    /\ proc_stream_id = <<>>
    /\ processed = NotYet

AggIdle ==
    /\ series = <<>>
    /\ interval = "minute"
    /\ aggregated = NotYet
    /\ growth = NotYet

AcqIdle ==
    /\ acq_stream_id = <<>>
    /\ acq_response = NotYet
    /\ acq_result = NotYet

\* app.py 47, 59, 68, 73: the labels of connection_status, which the code
\* writes in Arabic
ConnectedApi == "connected (API)"

ConnectedScraper == "connected (scraping)"

Disconnected == "disconnected"

\* app.py 23-50: the session state of a new session
NewSession ==
    [data |-> <<>>, selected_stream |-> PyNone, using_api |-> FALSE,
     using_scraper |-> FALSE, last_update |-> PyNone,
     connection_status |-> Disconnected, update_frequency |-> 60]

AppIdle ==
    /\ session_state = NewSession
    /\ calls = <<>>
    /\ connected = PyNone
    /\ auto_refresh = TRUE
    /\ rerun = 0
    /\ refreshes = <<>>

----------------------------------------------------------------------------
(* utils/data_processor.py: process_stream_data.  A DataFrame is the       *)
(* sequence of its rows.                                                   *)

MetricNames == {"likes", "viewers", "comments", "gifts"}

Raise == [exc |-> TRUE]

Ok(v) == [exc |-> FALSE, value |-> v]

\* df[column] = v: a scalar is broadcast to the one row; a list of two
\* elements does not fit the one-row index (ValueError)
ColumnAssignRaises(v) == v.k = "list"

\* lines 18-26: the one-row frame the function starts from
InitialRow(stream_id, t) ==
    [timestamp |-> t, stream_id |-> stream_id, streamer_name |-> PyStr(<<>>),
     likes |-> PyInt(0), viewers |-> PyInt(0), comments |-> PyInt(0), gifts |-> PyInt(0)]

\* lines 54-62: the frame of the except branch
FallbackRow(stream_id, t) ==
    [timestamp |-> t, stream_id |-> stream_id, streamer_name |-> PyStr(Unknown),
     likes |-> PyInt(0), viewers |-> PyInt(0), comments |-> PyInt(0), gifts |-> PyInt(0)]

\* lines 31-34: the name the dict carries; Ok(Absent) when it carries none
ExtractName(d) ==
    LET elif == IF "streamer_name" \in DOMAIN d
                THEN Ok(d["streamer_name"]) ELSE Ok(Absent)
    IN  IF "broadcaster" \in DOMAIN d
        THEN LET b == d["broadcaster"]
             IN  CASE b.k = "dict" ->
                        IF "name" \in DOMAIN b.d THEN Ok(b.d["name"]) ELSE elif
                   [] b.k = "str" ->
                        \* 'name' in "..." is a substring test, and indexing
                        \* a str with 'name' is a TypeError
                        IF IsSubstring(NameKey, b.s) THEN Raise ELSE elif
                   [] b.k = "list" -> elif
                   [] OTHER -> Raise  \* 'name' in 5, 'name' in None
        ELSE elif

\* lines 37-47: the place the metrics are read from; stats.get of a value
\* that is no dict is an AttributeError
MetricsPlace(d) ==
    IF "stats" \in DOMAIN d
    THEN IF d["stats"].k = "dict" THEN Ok(d["stats"].d) ELSE Raise
    ELSE Ok(d)

\* lines 18-49: the body of the try
ProcessBody(raw, stream_id, t) ==
    LET row0 == InitialRow(stream_id, t)
    IN  IF raw.k # "dict" THEN Ok(row0)
        ELSE LET name == ExtractName(raw.d)
                 place == MetricsPlace(raw.d)
             IN  IF name.exc \/ place.exc THEN Raise
                 ELSE LET likes == Get(place.value, "likes", PyInt(0))
                          viewers == Get(place.value, "viewers", PyInt(0))
                          comments == Get(place.value, "comments", PyInt(0))
                          gifts == Get(place.value, "gifts", PyInt(0))
                      IN  IF \E v \in {name.value, likes, viewers, comments, gifts} :
                                 ColumnAssignRaises(v)
                          THEN Raise
                          ELSE Ok([row0 EXCEPT
                                      !.streamer_name =
                                          IF name.value = Absent THEN @ ELSE name.value,
                                      !.likes = likes,
                                      !.viewers = viewers,
                                      !.comments = comments,
                                      !.gifts = gifts])

\* the function without its except branch: an exception of the body leaves it
ProcessStreamDataNoHandler(raw, stream_id, t) ==
    LET body == ProcessBody(raw, stream_id, t)
    IN  IF body.exc
        THEN [raised |-> TRUE, frame |-> <<>>]
        ELSE [raised |-> FALSE, frame |-> <<body.value>>]

\* the nested stats sub-object ignored: metrics always read from the top level
ProcessStreamDataFlatOnly(raw, stream_id, t) ==
    LET flat == IF raw.k = "dict" /\ "stats" \in DOMAIN raw.d
                THEN PyDict([key \in DOMAIN raw.d \ {"stats"} |-> raw.d[key]])
                ELSE raw
        body == ProcessBody(flat, stream_id, t)
    IN  [raised |-> FALSE,
         frame |-> IF body.exc THEN <<FallbackRow(stream_id, t)>> ELSE <<body.value>>]

\* lines 16-62: process_stream_data; every exception of the body is caught
ProcessStreamData(raw, stream_id, t) ==
    LET body == ProcessBody(raw, stream_id, t)
    IN  [raised |-> FALSE,
         frame |-> IF body.exc THEN <<FallbackRow(stream_id, t)>> ELSE <<body.value>>]

----------------------------------------------------------------------------
(* utils/data_processor.py: aggregate_data *)

\* the code points of the characters of the stream ids that are compared
CharCode == ("a" :> 97) @@ ("b" :> 98)

\* s < t for two str: Python's comparison by code point
RECURSIVE StrLess(_, _)
StrLess(s, t) ==
    IF t = <<>> THEN FALSE
    ELSE IF s = <<>> THEN TRUE
    ELSE IF CharCode[Head(s)] # CharCode[Head(t)]
         THEN CharCode[Head(s)] < CharCode[Head(t)]
         ELSE StrLess(Tail(s), Tail(t))

\* lines 82-89: the width of the bucket, in seconds ('Min', 'H', 'D')
FloorUnit(iv) ==
    CASE iv = "minute" -> 60
      [] iv = "hour" -> 3600
      [] iv = "day" -> 86400
      [] OTHER -> 60

\* Series.dt.floor
FloorTo(t, unit) == t - (t % unit)

GroupKey(row, unit) == <<FloorTo(row.timestamp, unit), row.stream_id>>

KeyLess(g, h) == g[1] < h[1] \/ (g[1] = h[1] /\ StrLess(g[2], h[2]))

\* groupby sorts the group keys
RECURSIVE SortKeys(_)
SortKeys(S) ==
    IF S = {} THEN <<>>
    ELSE LET m == CHOOSE g \in S : \A h \in S \ {g} : KeyLess(g, h)
         IN  <<m>> \o SortKeys(S \ {m})

\* 'first': the first value of the group that is not null
FirstName(rows, idx) ==
    LET named == {i \in idx : rows[i].streamer_name.k # "null"}
    IN  IF named = {} THEN PyNone ELSE rows[Min(named)].streamer_name

\* the metrics of a group added up instead of maximised
AggRowSum(rows, unit, g) ==
    LET idx == {i \in 1..Len(rows) : GroupKey(rows[i], unit) = g}
        RECURSIVE Sum(_, _)
        Sum(I, m) == IF I = {} THEN 0
                     ELSE LET i == Min(I) IN rows[i][m].v + Sum(I \ {i}, m)
    IN  [timestamp |-> g[1], stream_id |-> g[2],
         streamer_name |-> FirstName(rows, idx),
         likes |-> PyInt(Sum(idx, "likes")),
         viewers |-> PyInt(Sum(idx, "viewers")),
         comments |-> PyInt(Sum(idx, "comments")),
         gifts |-> PyInt(Sum(idx, "gifts"))]

\* lines 93-102: the row of one group
AggRow(rows, unit, g) ==
    LET idx == {i \in 1..Len(rows) : GroupKey(rows[i], unit) = g}
    IN  [timestamp |-> g[1], stream_id |-> g[2],
         streamer_name |-> FirstName(rows, idx),
         likes |-> PyInt(Max({rows[i].likes.v : i \in idx})),
         viewers |-> PyInt(Max({rows[i].viewers.v : i \in idx})),
         comments |-> PyInt(Max({rows[i].comments.v : i \in idx})),
         gifts |-> PyInt(Max({rows[i].gifts.v : i \in idx}))]

\* lines 75-104: aggregate_data
AggregateData(rows, iv) ==
    IF rows = <<>> THEN rows
    ELSE LET unit == FloorUnit(iv)
             keys == SortKeys({GroupKey(rows[i], unit) : i \in 1..Len(rows)})
         IN  [j \in 1..Len(keys) |-> AggRow(rows, unit, keys[j])]

----------------------------------------------------------------------------
(* utils/data_processor.py: calculate_growth_rates.  A rate is the exact   *)
(* fraction num/den; the code computes it in floating point.               *)

Rate(n, d) == [num |-> n, den |-> d]

\* data.sort_values('timestamp'): the orders a sort by timestamp may give
\* (rows of equal timestamp in any order)
SortedOrders(rows) ==
    LET n == Len(rows)
        perms == {p \in [1..n -> 1..n] : \A i, j \in 1..n : i # j => p[i] # p[j]}
    IN  {[i \in 1..n |-> rows[p[i]]] :
            p \in {q \in perms : \A i \in 1..(n - 1) :
                      rows[q[i]].timestamp <= rows[q[i + 1]].timestamp}}

\* the divisor with every span under a minute raised to one minute
GrowthDivisorFloored(seconds) ==
    IF seconds < 60 THEN Rate(1, 1) ELSE Rate(seconds, 60)

\* lines 157-161: time_diff in minutes, as the fraction seconds/60, and 1
\* when it is exactly 0
GrowthDivisor(seconds) ==
    IF seconds = 0 THEN Rate(1, 1) ELSE Rate(seconds, 60)

\* lines 141-171: calculate_growth_rates on the frame as sorted
GrowthRates(sorted) ==
    IF Len(sorted) < 2
    THEN [m \in {"likes", "viewers", "comments", "gifts"} |-> Rate(0, 1)]
    ELSE LET first_point == sorted[1]
             last_point == sorted[Len(sorted)]
             time_diff == GrowthDivisor(last_point.timestamp - first_point.timestamp)
         IN  [m \in {"likes", "viewers", "comments", "gifts"} |->
                 Rate((last_point[m].v - first_point[m].v) * time_diff.den,
                      time_diff.num)]

----------------------------------------------------------------------------
(* aggregate_data as a state machine *)

IdA == <<"a">>

IdB == <<"b">>

\* name and metrics of the records enumerated
AggProfiles ==
    {[streamer_name |-> PyStr(NameX), likes |-> PyInt(3), viewers |-> PyInt(2)],
     [streamer_name |-> PyStr(NameY), likes |-> PyInt(7), viewers |-> PyInt(1)],
     [streamer_name |-> PyStr(NameY), likes |-> PyInt(3), viewers |-> PyInt(1)]}

AggRows ==
    {[timestamp |-> t, stream_id |-> id, streamer_name |-> p.streamer_name,
      likes |-> p.likes, viewers |-> p.viewers, comments |-> PyInt(4),
      gifts |-> PyInt(0)] :
        t \in {30, 59, 3600, 86400}, id \in {IdA, IdB}, p \in AggProfiles}

RECURSIVE FramesOfLen(_, _)
FramesOfLen(R, n) ==
    IF n = 0 THEN {<<>>}
    ELSE {Append(f, r) : f \in FramesOfLen(R, n - 1), r \in R}

Frames(R) == UNION {FramesOfLen(R, n) : n \in 0..MaxRows}

Intervals == {"minute", "hour", "day", "week"}

InitAggregate ==
    /\ series \in Frames(AggRows)
    /\ interval \in Intervals
    /\ aggregated = NotYet
    /\ growth = NotYet
    /\ NormIdle /\ ProcIdle /\ AcqIdle /\ AppIdle /\ now = 0

\* aggregate_data(series, interval); lines 79-89 add the time_group column
\* to the caller's frame
Aggregate ==
    /\ aggregated = NotYet
    /\ aggregated' = [frame |-> AggregateData(series, interval)]
    /\ series' = [i \in 1..Len(series) |->
                     series[i] @@ ("time_group" :>
                         FloorTo(series[i].timestamp, FloorUnit(interval)))]
    /\ UNCHANGED <<interval, growth, normVars, procVars, now, acqVars, appVars>>

SpecAggregate == InitAggregate /\ [][Aggregate]_vars

\* the bucket of a timestamp, said without the floor: the multiple of the
\* interval's width at or below it
InBucket(t, bucket, iv) ==
    LET width == IF iv = "hour" THEN 3600 ELSE IF iv = "day" THEN 86400 ELSE 60
    IN  bucket % width = 0 /\ bucket <= t /\ t < bucket + width

\* C8: aggregate_data returns exactly one row for each pair (timestamp
\* floored to the interval, stream_id) of the input and no other row; each
\* metric of a row is the maximum of that metric over the records of the
\* pair, and its streamer name is that of the first such record.
C8_AggregateMax ==
    aggregated # NotYet =>
        LET members(j) ==
                {i \in 1..Len(series) :
                    /\ series[i].stream_id = aggregated.frame[j].stream_id
                    /\ InBucket(series[i].timestamp, aggregated.frame[j].timestamp, interval)}
        IN  /\ \A i \in 1..Len(series) :
                  Cardinality({j \in 1..Len(aggregated.frame) : i \in members(j)}) = 1
            /\ \A j \in 1..Len(aggregated.frame) :
                  /\ members(j) # {}
                  /\ aggregated.frame[j].streamer_name
                        = series[Min(members(j))].streamer_name
                  /\ \A m \in MetricNames :
                        /\ \A i \in members(j) : series[i][m].v <= aggregated.frame[j][m].v
                        /\ \E i \in members(j) : series[i][m].v = aggregated.frame[j][m].v

\* two records of one stream in the same minute, likes 3 and 7, give 7
C8_Witness ==
    /\ aggregated # NotYet
    /\ interval = "minute"
    /\ Len(series) = 2
    /\ series[1].stream_id = series[2].stream_id
    /\ series[1].timestamp = 30 /\ series[2].timestamp = 59
    /\ series[1].likes = PyInt(3) /\ series[2].likes = PyInt(7)
    /\ series[1].viewers = PyInt(2) /\ series[2].viewers = PyInt(1)
    /\ Len(aggregated.frame) = 1
    /\ aggregated.frame[1].timestamp = 0
    /\ aggregated.frame[1].likes = PyInt(7)
    /\ aggregated.frame[1].viewers = PyInt(2)

----------------------------------------------------------------------------
(* calculate_growth_rates as a state machine *)

GrowthRows ==
    [timestamp : {0, 30, 60, 90}, stream_id : {IdA},
     streamer_name : {PyStr(NameX)},
     likes : {PyInt(100), PyInt(250)}, viewers : {PyInt(1), PyInt(5)},
     comments : {PyInt(4)}, gifts : {PyInt(0)}]

GrowthRow(t, likes) ==
    [timestamp |-> t, stream_id |-> IdA, streamer_name |-> PyStr(NameX),
     likes |-> PyInt(likes), viewers |-> PyInt(1), comments |-> PyInt(4),
     gifts |-> PyInt(0)]

\* two points 10 minutes apart, likes rising from 100 to 250
TenMinutes == <<GrowthRow(0, 100), GrowthRow(600, 250)>>

\* two points 30 seconds apart
HalfMinute == <<GrowthRow(0, 100), GrowthRow(30, 250)>>

InitGrowth ==
    /\ series \in Frames(GrowthRows) \cup {TenMinutes, HalfMinute}
    /\ interval = "minute"
    /\ aggregated = NotYet
    /\ growth = NotYet
    /\ NormIdle /\ ProcIdle /\ AcqIdle /\ AppIdle /\ now = 0

\* calculate_growth_rates(series)
CalculateGrowth ==
    /\ growth = NotYet
    /\ \E sorted \in SortedOrders(series) : growth' = GrowthRates(sorted)
    /\ UNCHANGED <<series, interval, aggregated, normVars, procVars, now, acqVars, appVars>>

SpecGrowth == InitGrowth /\ [][CalculateGrowth]_vars

\* two fractions are the same number
SameRate(r, q) == r.num * q.den = q.num * r.den

Earliest(rows) == {i \in 1..Len(rows) : \A j \in 1..Len(rows) :
                      rows[i].timestamp <= rows[j].timestamp}

Latest(rows) == {i \in 1..Len(rows) : \A j \in 1..Len(rows) :
                    rows[i].timestamp >= rows[j].timestamp}

\* the claim as written: the divisor is max(elapsed minutes, 1)
C9_DivisorAtLeastOneMinute ==
    growth # NotYet =>
        IF Len(series) < 2
        THEN \A m \in MetricNames : SameRate(growth[m], Rate(0, 1))
        ELSE \E f \in Earliest(series), l \in Latest(series) :
                LET seconds == series[l].timestamp - series[f].timestamp
                IN  \A m \in MetricNames :
                        SameRate(growth[m],
                                 Rate((series[l][m].v - series[f][m].v) * 60,
                                      IF seconds < 60 THEN 60 ELSE seconds))

\* C9 (amended): each rate is (last.metric - first.metric) / elapsed_minutes
\* over the earliest and latest records, the divisor being 1 only when the
\* elapsed time is exactly 0; a span of 30 seconds divides by 0.5; fewer
\* than two records give 0 for all four rates.
C9_GrowthRates ==
    growth # NotYet =>
        IF Len(series) < 2
        THEN \A m \in MetricNames : SameRate(growth[m], Rate(0, 1))
        ELSE \E f \in Earliest(series), l \in Latest(series) :
                LET seconds == series[l].timestamp - series[f].timestamp
                IN  \A m \in MetricNames :
                        SameRate(growth[m],
                                 IF seconds = 0
                                 THEN Rate(series[l][m].v - series[f][m].v, 1)
                                 ELSE Rate((series[l][m].v - series[f][m].v) * 60,
                                           seconds))

\* the 30-second series, whose likes rate is 150 / 0.5 = 300 per minute
C9_Witness ==
    /\ growth # NotYet
    /\ series = HalfMinute
    /\ SameRate(growth["likes"], Rate(300, 1))

\* the 10-minute series of the spec: 15.0 per minute
C9_WitnessTenMinutes ==
    /\ growth # NotYet
    /\ series = TenMinutes
    /\ SameRate(growth["likes"], Rate(15, 1))

----------------------------------------------------------------------------
(* Inputs of the normaliser *)

Alphabet == {Host, "/", "a", "b"}

RECURSIVE TextsOfLen(_)
TextsOfLen(n) ==
    IF n = 0 THEN {<<>>}
    ELSE {Append(t, c) : t \in TextsOfLen(n - 1), c \in Alphabet}

Texts == UNION {TextsOfLen(n) : n \in 0..MaxLen}

AliceKey == <<"a", "l", "i", "c", "e", "/", "s", "t", "r", "e", "a", "m", "4", "2">>

AliceUrl == <<"h", "t", "t", "p", "s", ":", "/", "/", Host, "/">> \o AliceKey

SidebarInputs == Texts \cup {AliceKey, AliceUrl}

----------------------------------------------------------------------------
(* utils/scraper.py: scrape_jaco_data.                                     *)
(*                                                                         *)
(* The network answers a page request by raising (a timeout, a connection  *)
(* error) or with a response: its status code and, for 200, the page.  Of  *)
(* the page the model keeps what the function reads: the text of the name  *)
(* element, the title, the dict decoded from the first script that holds   *)
(* a decodable state blob, and the texts of the four count elements; each  *)
(* is Absent when the page has none.                                       *)

\* str.strip(): leading and trailing blanks removed
RECURSIVE LStrip(_)
LStrip(s) == IF s # <<>> /\ Head(s) = " " THEN LStrip(Tail(s)) ELSE s

RECURSIVE RStrip(_)
RStrip(s) ==
    IF s # <<>> /\ s[Len(s)] = " " THEN RStrip(SubSeq(s, 1, Len(s) - 1)) ELSE s

Strip(s) == RStrip(LStrip(s))

\* s.split(sep)[0]: the text before the first sep, all of s when it has none
SplitFirst(s, sep) ==
    LET at == {i \in 1..Len(s) : s[i] = sep}
    IN  IF at = {} THEN s ELSE SubSeq(s, 1, Min(at) - 1)

UpperOf ==
    ("a" :> "A") @@ ("b" :> "B") @@ ("e" :> "E") @@ ("s" :> "S")
        @@ ("t" :> "T") @@ (Host :> "Jaco.live")

LowerOf ==
    ("A" :> "a") @@ ("B" :> "b") @@ ("E" :> "e") @@ ("S" :> "s")
        @@ ("T" :> "t") @@ ("Jaco.live" :> Host)

\* str.capitalize(): the first character in upper case, the rest in lower
Capitalize(s) ==
    [i \in 1..Len(s) |->
        IF i = 1
        THEN IF s[i] \in DOMAIN UpperOf THEN UpperOf[s[i]] ELSE s[i]
        ELSE IF s[i] \in DOMAIN LowerOf THEN LowerOf[s[i]] ELSE s[i]]

DigitValue ==
    ("0" :> 0) @@ ("1" :> 1) @@ ("2" :> 2) @@ ("3" :> 3) @@ ("4" :> 4)
        @@ ("5" :> 5) @@ ("6" :> 6) @@ ("7" :> 7) @@ ("8" :> 8) @@ ("9" :> 9)

\* re.sub(r'[^\d]', '', text)
OnlyDigits(text) == SelectSeq(text, LAMBDA c : c \in DOMAIN DigitValue)

\* int(digits), for a non-empty text of digits
RECURSIVE IntOf(_)
IntOf(digits) ==
    IF digits = <<>> THEN 0
    ELSE 10 * IntOf(SubSeq(digits, 1, Len(digits) - 1))
            + DigitValue[digits[Len(digits)]]

\* lines 125-135: the count of one element; int('') is a ValueError
ElementCount(element) ==
    IF element = Absent THEN Ok(0)
    ELSE LET digits == OnlyDigits(element.s)
         IN  IF digits = <<>> THEN Raise ELSE Ok(IntOf(digits))

\* lines 61-78: the streamer name
StreamerName(stream_id, page) ==
    LET found == IF page.name_el # Absent THEN Strip(page.name_el.s) ELSE Unknown
        from_url == Capitalize(SplitFirst(stream_id, "/"))
    IN  IF found = Unknown
        THEN IF page.title # Absent /\ Contains(page.title.s, "-")
             THEN Strip(SplitFirst(page.title.s, "-"))
             ELSE from_url
        ELSE found

\* lines 97-117: the stats of a decoded blob; .get on a stream value that
\* is no dict is an AttributeError
BlobStats(d) ==
    IF "stream" \in DOMAIN d
    THEN LET stream_data == d["stream"]
         IN  IF stream_data.k # "dict" THEN Raise
             ELSE Ok([likes |-> Get(stream_data.d, "likeCount", PyInt(0)),
                      viewers |-> Get(stream_data.d, "viewerCount", PyInt(0)),
                      comments |-> Get(stream_data.d, "commentCount", PyInt(0)),
                      gifts |-> Get(stream_data.d, "giftCount", PyInt(0))])
    ELSE IF "liveStream" \in DOMAIN d
    THEN LET stream_data == d["liveStream"]
         IN  IF stream_data.k # "dict" THEN Raise
             ELSE Ok([likes |-> Get(stream_data.d, "likes", PyInt(0)),
                      viewers |-> Get(stream_data.d, "viewers", PyInt(0)),
                      comments |-> Get(stream_data.d, "comments", PyInt(0)),
                      gifts |-> Get(stream_data.d, "gifts", PyInt(0))])
    ELSE Ok(EmptyDict)

\* line 97: data and isinstance(data, dict)
UsableBlob(data) == data # Absent /\ data.k = "dict" /\ DOMAIN data.d # {}

\* lines 125-143: the record scraped from the count elements
ElementRecord(streamer_name, page) ==
    LET likes == ElementCount(page.likes_el)
        viewers == ElementCount(page.viewers_el)
        comments == ElementCount(page.comments_el)
        gifts == ElementCount(page.gifts_el)
    IN  IF likes.exc \/ viewers.exc \/ comments.exc \/ gifts.exc THEN Raise
        ELSE Ok(PyDict([streamer_name |-> PyStr(streamer_name),
                        likes |-> PyInt(likes.value),
                        viewers |-> PyInt(viewers.value),
                        comments |-> PyInt(comments.value),
                        gifts |-> PyInt(gifts.value)]))

\* the steps of the fallback chain, as the function takes them
FetchPage == "fetch_page"

ScriptExtraction == "script_extraction"

ElementExtraction == "element_extraction"

Synthetic == "synthetic"

\* lines 20-143: the body of the try, on the cleaned stream id
ScrapeBody(stream_id, response) ==
    IF response.kind = "raise"
    THEN [exc |-> TRUE, steps |-> <<FetchPage>>]
    ELSE IF response.status # 200
    THEN [exc |-> FALSE, value |-> PyNone, steps |-> <<FetchPage>>]
    ELSE LET page == response.page
             streamer_name == StreamerName(stream_id, page)
         IN  IF UsableBlob(page.blob)
             THEN LET stats == BlobStats(page.blob.d)
                  IN  IF stats.exc
                      THEN [exc |-> TRUE, steps |-> <<FetchPage, ScriptExtraction>>]
                      ELSE [exc |-> FALSE,
                            value |-> PyDict(("streamer_name" :> PyStr(streamer_name))
                                             @@ stats.value),
                            steps |-> <<FetchPage, ScriptExtraction>>]
             ELSE LET record == ElementRecord(streamer_name, page)
                      steps == <<FetchPage, ScriptExtraction, ElementExtraction>>
                  IN  IF record.exc
                      THEN [exc |-> TRUE, steps |-> steps]
                      ELSE [exc |-> FALSE, value |-> record.value, steps |-> steps]

\* the wall clock's hour and minute
HourOf(t) == (t \div 3600) % 24

MinuteOf(t) == (t \div 60) % 60

\* lines 145-170: the record of the except branch
SyntheticRecord(stream_id, t) ==
    LET streamer_name_from_id ==
            IF Contains(stream_id, "/") THEN SplitFirst(stream_id, "/") ELSE stream_id
        hour == HourOf(t)
        minute == MinuteOf(t)
    IN  PyDict([streamer_name |-> PyStr(streamer_name_from_id),
                likes |-> PyInt(300 + (hour * 50) + (minute * 5)),
                viewers |-> PyInt(50 + (hour * 10) + minute),
                comments |-> PyInt(120 + (hour * 30) + (minute * 3)),
                gifts |-> PyInt(20 + (hour * 5) + minute)])

\* lines 20-170: the try statement, given the outcome of its body: what
\* the body returns, or the record of the except branch
TryExcept(body, stream_id, t) ==
    IF body.exc
    THEN [ret |-> SyntheticRecord(stream_id, t),
          steps |-> Append(body.steps, Synthetic)]
    ELSE [ret |-> body.value, steps |-> body.steps]

\* lines 30-170: the function from the cleaned stream id on
ScrapeCleaned(stream_id, response, t) ==
    TryExcept(ScrapeBody(stream_id, response), stream_id, t)

\* lines 10-170: scrape_jaco_data; ret is the value returned, steps the
\* steps of the chain it took
ScrapeJacoData(stream_id, response, t) ==
    ScrapeCleaned(CleanStreamId(stream_id), response, t)

----------------------------------------------------------------------------
(* app.py: the handlers of a script run.  A handler takes the session      *)
(* state and gives the new one and the acquisition calls it made.          *)

NoCalls(ss) == [ss |-> ss, calls |-> <<>>]

\* lines 85-94: update_data from the value new_data that scrape_jaco_data
\* returned; the call is recorded with its stream key and its result
StoreNewData(ss, stream_id, t, scraped) ==
    [ss |-> IF scraped.ret # PyNone
            THEN [ss EXCEPT
                     !.data = @ \o ProcessStreamData(scraped.ret, stream_id, t).frame,
                     !.last_update = PyInt(t)]
            ELSE ss,
     calls |-> <<[fn |-> "scrape_jaco_data", stream_id |-> stream_id,
                  result |-> scraped, normalized |-> scraped.ret # PyNone]>>]

\* a failed probe of the API status endpoint put before the calls of an
\* update
WithApiProbe(updated, stream_id) ==
    [ss |-> updated.ss,
     calls |-> <<[fn |-> "check_api_available", stream_id |-> stream_id,
                  result |-> [ret |-> PyBool(FALSE), steps |-> <<>>],
                  normalized |-> FALSE]>> \o updated.calls]

\* update_data with the API health check tried before the scraper
UpdateDataApiFirst(ss, stream_id, response, t) ==
    WithApiProbe(StoreNewData([ss EXCEPT !.using_scraper = TRUE], stream_id, t,
                              ScrapeJacoData(stream_id, response, t)),
                 stream_id)

\* lines 78-97: update_data
UpdateData(ss, stream_id, response, t) ==
    StoreNewData([ss EXCEPT !.using_scraper = TRUE], stream_id, t,
                 ScrapeJacoData(stream_id, response, t))

\* a str that is not empty (None and '' are falsy)
Truthy(v) == v.k = "str" /\ v.s # <<>>

\* lines 322-329: the track button
TrackButton(ss, url, response, t) ==
    LET stream_id == MainStreamId(url)
    IN  IF stream_id # <<>>
        THEN UpdateData([ss EXCEPT !.selected_stream = PyStr(stream_id)],
                        stream_id, response, t)
        ELSE NoCalls(ss)

\* the dashboard tab without the test of the selected stream
DashboardTabNoKeyCheck(ss, response, t) ==
    IF ss.data # <<>>
    THEN IF \/ ss.last_update = PyNone
            \/ t - ss.last_update.v >= ss.update_frequency
         THEN UpdateData(ss, IF ss.selected_stream = PyNone THEN <<>>
                             ELSE ss.selected_stream.s, response, t)
         ELSE NoCalls(ss)
    ELSE NoCalls(ss)

\* lines 366-371: the dashboard tab refreshes when the interval has elapsed
DashboardTab(ss, response, t) ==
    IF ss.data # <<>> /\ Truthy(ss.selected_stream)
    THEN IF \/ ss.last_update = PyNone
            \/ t - ss.last_update.v >= ss.update_frequency
         THEN UpdateData(ss, ss.selected_stream.s, response, t)
         ELSE NoCalls(ss)
    ELSE NoCalls(ss)

\* lines 377-386: the sleep before the automatic rerun, in seconds
SleepTime(ss, t, auto) ==
    IF ss.data # <<>> /\ Truthy(ss.selected_stream) /\ auto
    THEN LET time_to_refresh ==
                 IF ss.last_update # PyNone
                 THEN Max({1, ss.update_frequency - (t - ss.last_update.v)})
                 ELSE ss.update_frequency
         IN  Min({10, time_to_refresh})
    ELSE 0

\* utils/api_handler.py 11-24: check_api_available on the answer of the
\* status endpoint
CheckApiAvailable(api_response) ==
    api_response.kind = "response" /\ api_response.status = 200

\* app.py 56-76: check_connection from the answers of check_api_available
\* and of scrape_jaco_data("test").  The except of lines 70-74 guards a
\* call that raises nothing: scrape_jaco_data catches every exception
\* itself.
ConnectionOutcome(ss, api_available, test_data) ==
    IF api_available
    THEN [ss |-> [ss EXCEPT !.using_api = TRUE, !.using_scraper = FALSE,
                            !.connection_status = ConnectedApi],
          calls |-> <<[fn |-> "check_api_available", stream_id |-> <<>>,
                       result |-> [ret |-> PyBool(TRUE), steps |-> <<>>],
                       normalized |-> FALSE]>>,
          ret |-> TRUE]
    ELSE [ss |-> IF test_data.ret # PyNone
                 THEN [ss EXCEPT !.using_api = FALSE, !.using_scraper = TRUE,
                                 !.connection_status = ConnectedScraper]
                 ELSE ss,
          calls |-> <<[fn |-> "check_api_available", stream_id |-> <<>>,
                       result |-> [ret |-> PyBool(FALSE), steps |-> <<>>],
                       normalized |-> FALSE],
                      [fn |-> "scrape_jaco_data", stream_id |-> TestKey,
                       result |-> test_data, normalized |-> FALSE]>>,
          ret |-> test_data.ret # PyNone]

\* app.py 52-76: check_connection; ret is the value returned
CheckConnection(ss, api_response, response, t) ==
    ConnectionOutcome(ss, CheckApiAvailable(api_response),
                      ScrapeJacoData(TestKey, response, t))

\* add_manual_data with the new entry put in place of the stored frame
AddManualDataOverwrite(ss, entry, t) ==
    [ss EXCEPT !.data = <<[timestamp |-> t, stream_id |-> entry.stream_id,
                           streamer_name |-> PyStr(entry.streamer_name),
                           likes |-> PyInt(entry.likes),
                           viewers |-> PyInt(entry.viewers),
                           comments |-> PyInt(entry.comments),
                           gifts |-> PyInt(entry.gifts)]>>,
               !.selected_stream = PyStr(entry.stream_id),
               !.last_update = PyInt(t)]

\* app.py 115-130: add_manual_data, the form submitted
AddManualData(ss, entry, t) ==
    [ss EXCEPT !.data = Append(@, [timestamp |-> t, stream_id |-> entry.stream_id,
                                   streamer_name |-> PyStr(entry.streamer_name),
                                   likes |-> PyInt(entry.likes),
                                   viewers |-> PyInt(entry.viewers),
                                   comments |-> PyInt(entry.comments),
                                   gifts |-> PyInt(entry.gifts)]),
               !.selected_stream = PyStr(entry.stream_id),
               !.last_update = PyInt(t)]

\* app.py 285-338: the sidebar, for the widget the user acted on
Sidebar(ss, event, t) ==
    CASE event.type = "check" ->
            CheckConnection(ss, event.api_response, event.response, t)
      [] event.type = "track" ->
            LET tracked == TrackButton(ss, event.url, event.response, t)
            IN  [ss |-> tracked.ss, calls |-> tracked.calls, ret |-> FALSE]
      [] event.type = "frequency" ->
            [ss |-> [ss EXCEPT !.update_frequency = event.update_freq],
             calls |-> <<>>, ret |-> FALSE]
      [] OTHER -> [ss |-> ss, calls |-> <<>>, ret |-> FALSE]

----------------------------------------------------------------------------
(* Inputs of process_stream_data *)

\* the dicts of metrics: each of the four keys absent or present
MetricDicts(L, V, C, G) ==
    {Entry("likes", l) @@ Entry("viewers", v) @@ Entry("comments", c)
        @@ Entry("gifts", g) : l \in L, v \in V, c \in C, g \in G}

StatsValues ==
    {Absent, PyNone, PyInt(5)}
        \cup {PyDict(m) : m \in MetricDicts({Absent, PyInt(5)}, {Absent, PyInt(2)},
                                          {Absent, PyInt(1)}, {Absent, PyInt(0)})}

BroadcasterValues ==
    {Absent, PyNone, PyStr(<<"b", "o", "b">>), PyStr(NameKey), PyList2,
     PyDict(EmptyDict), PyDict("name" :> PyStr(NameX)), PyDict("name" :> PyStr(<<>>))}

TopNames == {Absent, PyStr(NameY), PyStr(<<>>)}

RawDicts ==
    {PyDict(Entry("broadcaster", b) @@ Entry("streamer_name", n)
            @@ Entry("stats", st) @@ m) :
        b \in BroadcasterValues, n \in TopNames, st \in StatsValues,
        m \in MetricDicts({Absent, PyInt(10), PyNone, PyList2}, {Absent, PyInt(3)},
                          {Absent, PyInt(4)}, {Absent, PyInt(0)})}

RawInputs == RawDicts \cup {PyNone, PyInt(7), PyStr(NameY), PyList2}

ProcInit ==
    /\ raw_data \in RawInputs
    /\ proc_stream_id \in {AliceKey, TestKey}
    /\ processed = NotYet

Process ==
    /\ processed = NotYet
    /\ processed' = ProcessStreamData(raw_data, proc_stream_id, now)
    /\ UNCHANGED <<raw_data, proc_stream_id, normVars, now, aggVars, acqVars, appVars>>

Tick ==
    /\ now < MaxClock
    /\ now' = now + 1
    /\ UNCHANGED <<procVars, normVars, aggVars, acqVars, appVars>>

ProcNext == Process \/ Tick

InitProcess == ProcInit /\ NormIdle /\ AggIdle /\ AcqIdle /\ AppIdle /\ now = 0

SpecProcess == InitProcess /\ [][ProcNext]_vars

NestedExample ==
    PyDict(("broadcaster" :> PyDict("name" :> PyStr(NameX)))
           @@ ("stats" :> PyDict([likes |-> PyInt(5), viewers |-> PyInt(2),
                                  comments |-> PyInt(1), gifts |-> PyInt(0)])))

FlatExample == PyDict(("streamer_name" :> PyStr(NameY)) @@ ("likes" :> PyInt(10)))

\* a dict of the shapes the two sources produce: broadcaster and stats, when
\* present, are dicts, and every field value is a scalar
WellShaped(raw) ==
    /\ raw.k = "dict"
    /\ "broadcaster" \in DOMAIN raw.d => raw.d["broadcaster"].k = "dict"
    /\ "stats" \in DOMAIN raw.d => raw.d["stats"].k = "dict"
    /\ \A key \in DOMAIN raw.d : raw.d[key].k # "list"

HasNestedName(raw) ==
    /\ "broadcaster" \in DOMAIN raw.d
    /\ raw.d["broadcaster"].k = "dict"
    /\ "name" \in DOMAIN raw.d["broadcaster"].d

\* C5: process_stream_data takes the name from broadcaster.name when the
\* nested shape is present and else from the top-level streamer_name, reads
\* the four metrics from stats when a stats key is present and else from the
\* top level, and gives 0 to every metric absent from the chosen place.
C5_ProcessRule ==
    (processed # NotYet /\ WellShaped(raw_data)) =>
        /\ ~processed.raised
        /\ Len(processed.frame) = 1
        /\ LET row == processed.frame[1]
               d == raw_data.d
               place == IF "stats" \in DOMAIN d THEN d["stats"].d ELSE d
           IN  /\ HasNestedName(raw_data) =>
                     row.streamer_name = d["broadcaster"].d["name"]
               /\ (~HasNestedName(raw_data) /\ "streamer_name" \in DOMAIN d) =>
                     row.streamer_name = d["streamer_name"]
               /\ \A m \in MetricNames :
                     row[m] = IF m \in DOMAIN place THEN place[m] ELSE PyInt(0)
               /\ raw_data = NestedExample =>
                     /\ row.streamer_name = PyStr(NameX)
                     /\ <<row.likes, row.viewers, row.comments, row.gifts>>
                            = <<PyInt(5), PyInt(2), PyInt(1), PyInt(0)>>
               /\ raw_data = FlatExample =>
                     /\ row.streamer_name = PyStr(NameY)
                     /\ <<row.likes, row.viewers, row.comments, row.gifts>>
                            = <<PyInt(10), PyInt(0), PyInt(0), PyInt(0)>>

C5_Witness ==
    /\ processed # NotYet
    /\ raw_data = NestedExample
    /\ processed.frame[1].streamer_name = PyStr(NameX)
    /\ processed.frame[1].likes = PyInt(5)

\* C6: process_stream_data never raises, whatever the raw input, and returns
\* exactly one record, whose stream_id is the stream key it was given.
C6_ProcessTotal ==
    processed # NotYet =>
        /\ ~processed.raised
        /\ Len(processed.frame) = 1
        /\ processed.frame[1].stream_id = proc_stream_id

C6_Witness ==
    /\ processed # NotYet
    /\ raw_data.k = "dict"
    /\ "stats" \in DOMAIN raw_data.d
    /\ raw_data.d["stats"] = PyNone
    /\ ~processed.raised
    /\ processed.frame[1].stream_id = proc_stream_id
    /\ processed.frame[1].streamer_name = PyStr(Unknown)

CarriesNoName(raw) ==
    \/ raw.k # "dict"
    \/ /\ ~HasNestedName(raw)
       /\ "streamer_name" \notin DOMAIN raw.d

\* C7: when the raw input carries no streamer name, the record's
\* streamer_name is the "Unknown" sentinel and never the empty string.
C7_MissingNameIsSentinel ==
    (processed # NotYet /\ CarriesNoName(raw_data)) =>
        /\ processed.frame[1].streamer_name = PyStr(Unknown)
        /\ processed.frame[1].streamer_name # PyStr(<<>>)

----------------------------------------------------------------------------
(* The normaliser as a state machine: main() extracts the id, and the      *)
(* scraper it hands the id to cleans it once more.                         *)

NormInit ==
    /\ stream_url \in SidebarInputs
    /\ main_stream_id = NotYet
    /\ scr_stream_id = NotYet
    /\ norm_pc = "typed"

ExtractInMain ==
    /\ norm_pc = "typed"
    /\ main_stream_id' = MainStreamId(stream_url)
    /\ norm_pc' = "extracted"
    /\ UNCHANGED <<stream_url, scr_stream_id, procVars, now, aggVars, acqVars, appVars>>

CleanInScraper ==
    /\ norm_pc = "extracted"
    /\ main_stream_id # <<>>
    /\ scr_stream_id' = CleanStreamId(main_stream_id)
    /\ norm_pc' = "cleaned"
    /\ UNCHANGED <<stream_url, main_stream_id, procVars, now, aggVars, acqVars, appVars>>

NormNext == ExtractInMain \/ CleanInScraper

InitNormalize == NormInit /\ ProcIdle /\ AggIdle /\ AcqIdle /\ AppIdle /\ now = 0

SpecNormalize == InitNormalize /\ [][NormNext]_vars

\* C10: an input holding the platform host followed by a path yields the
\* first one or two path segments as the stream id (the URL of alice/stream42
\* gives alice/stream42), any other input is returned verbatim, and a bare
\* key is left unchanged when the scraper normalises it again.
HasHostPath(s) ==
    \E i \in 1..Len(s) :
        s[i] = Host /\ i + 2 <= Len(s) /\ s[i + 1] = "/" /\ s[i + 2] # "/"

SlashCount(s) == Cardinality({i \in 1..Len(s) : s[i] = "/"})

IsFirstSegments(s, key) ==
    \E i \in 1..Len(s) :
        /\ s[i] = Host /\ i + 2 <= Len(s) /\ s[i + 1] = "/" /\ s[i + 2] # "/"
        /\ \A j \in 1..(i - 1) :
              ~(s[j] = Host /\ j + 2 <= Len(s) /\ s[j + 1] = "/" /\ s[j + 2] # "/")
        /\ LET n == Len(key)
               after == i + 2 + n
           IN  /\ n >= 1
               /\ after - 1 <= Len(s)
               /\ key = SubSeq(s, i + 2, after - 1)
               /\ key[1] # "/" /\ key[n] # "/"
               /\ SlashCount(key) <= 1
               /\ (after <= Len(s) => s[after] = "/")
               /\ (SlashCount(key) = 0 =>
                     ~(after + 1 <= Len(s) /\ s[after + 1] # "/"))

C10_StreamIdNormalization ==
    /\ norm_pc \in {"extracted", "cleaned"} =>
          /\ HasHostPath(stream_url) => IsFirstSegments(stream_url, main_stream_id)
          /\ ~HasHostPath(stream_url) => main_stream_id = stream_url
          /\ stream_url = AliceUrl => main_stream_id = AliceKey
          /\ stream_url = AliceKey => main_stream_id = AliceKey
    /\ (norm_pc = "cleaned" /\ ~HasHostPath(stream_url)) =>
          scr_stream_id = main_stream_id

C10_Witness ==
    /\ norm_pc = "cleaned"
    /\ stream_url = AliceUrl
    /\ main_stream_id = AliceKey
    /\ scr_stream_id = AliceKey

C10_WitnessBare ==
    /\ norm_pc = "cleaned"
    /\ stream_url = AliceKey
    /\ scr_stream_id = AliceKey

----------------------------------------------------------------------------
(* Inputs of scrape_jaco_data *)

Text(s) == PyStr(s)

NameElements ==
    {Absent, Text(<<" ", "B", "o", "b", " ">>), Text(<<" ">>), Text(Unknown)}

Titles ==
    {Absent, Text(<<"B", "o", "b", " ", "-", " ", "L", "i", "v", "e">>),
     Text(<<"J", "a", "c", "o">>), Text(<<"-", " ", "L", "i", "v", "e">>)}

FullStream ==
    PyDict([likeCount |-> PyInt(4), viewerCount |-> PyInt(3),
            commentCount |-> PyInt(2), giftCount |-> PyInt(1)])

FullLiveStream ==
    PyDict([likes |-> PyInt(8), viewers |-> PyInt(7),
            comments |-> PyInt(6), gifts |-> PyInt(5)])

\* what the first decodable state blob of the page decodes to
Blobs ==
    {Absent,
     PyDict(EmptyDict),
     PyDict(Entry("stream", FullStream)),
     PyDict(Entry("stream", PyDict(EmptyDict))),
     PyDict(Entry("stream", PyDict(Entry("likeCount", PyInt(-1))))),
     PyDict(Entry("stream", PyDict(Entry("likeCount", PyStr(<<"1", "k">>))))),
     PyDict(Entry("stream", PyNone)),
     PyDict(Entry("liveStream", FullLiveStream)),
     PyDict(Entry("stream", FullStream) @@ Entry("liveStream", FullLiveStream)),
     PyDict(Entry("user", PyDict(EmptyDict)))}

Pages ==
    [name_el : NameElements, title : Titles, blob : Blobs,
     likes_el : {Absent, Text(<<"1", ",", "2">>), Text(<<"n", "/", "a">>),
                 Text(<<"-", "5">>)},
     viewers_el : {Absent, Text(<<"7">>)},
     comments_el : {Absent, Text(<<"3">>)},
     gifts_el : {Absent, Text(<<"0">>)}]

NoPage == [none |-> TRUE]

Responses ==
    {[kind |-> "raise", error |-> e, status |-> 0, page |-> NoPage]
        : e \in {"timeout", "connection"}}
    \cup {[kind |-> "response", error |-> "", status |-> st, page |-> NoPage]
        : st \in {204, 404, 500}}
    \cup {[kind |-> "response", error |-> "", status |-> 200, page |-> p]
        : p \in Pages}

KeyAB == <<"a", "/", "b">>

ScrapeKeys ==
    {TestKey, KeyAB, <<"a">>, <<"/", "b">>, <<Host, "/", "a", "/", "b">>}

\* wall clock, seconds after midnight: 00:00, 01:01, 23:59
ClockTimes == {0, 3600 + 60, (23 * 3600) + (59 * 60)}

----------------------------------------------------------------------------
(* One acquisition: update_data(stream_id) in a new session. *)

InitAcquire ==
    /\ acq_stream_id \in ScrapeKeys
    /\ acq_response \in Responses
    /\ acq_result = NotYet
    /\ now \in ClockTimes
    /\ NormIdle /\ ProcIdle /\ AggIdle /\ AppIdle

Acquire ==
    /\ acq_result = NotYet
    /\ \E updated \in {UpdateData(session_state, acq_stream_id, acq_response, now)} :
       \E scrapes \in {SelectSeq(updated.calls, LAMBDA c : c.fn = "scrape_jaco_data")} :
           /\ session_state' = updated.ss
           /\ calls' = updated.calls
           /\ acq_result' = IF scrapes = <<>>
                            THEN [ret |-> PyNone, steps |-> <<>>]
                            ELSE scrapes[Len(scrapes)].result
    /\ UNCHANGED <<acq_stream_id, acq_response, now, normVars, procVars, aggVars,
                   connected, auto_refresh, rerun, refreshes>>

SpecAcquire == InitAcquire /\ [][Acquire]_vars

Acquired == acq_result # NotYet

IsNat(v) == v.k = "int" /\ v.v >= 0

\* C1: for every non-empty stream key and every outcome of the fetch and
\* parse steps, the record scrape_jaco_data returns holds the four metric
\* fields likes, viewers, comments and gifts, each a non-negative integer,
\* and a non-empty streamer name.
C1_RecordWellFormed ==
    Acquired =>
        /\ acq_result.ret.k = "dict"
        /\ MetricNames \subseteq DOMAIN acq_result.ret.d
        /\ \A m \in MetricNames : IsNat(acq_result.ret.d[m])
        /\ "streamer_name" \in DOMAIN acq_result.ret.d
        /\ acq_result.ret.d["streamer_name"].k = "str"
        /\ acq_result.ret.d["streamer_name"].s # <<>>

\* the page fetch failed: it raised, or the status is not 2xx
FetchFailed(response) ==
    \/ response.kind = "raise"
    \/ response.status < 200
    \/ response.status > 299

\* C2: when the page fetch fails (timeout, connection error, non-2xx
\* response) scrape_jaco_data returns the synthetic record computed from
\* the current hour and minute, and never None.
C2_TerminalFallback ==
    (Acquired /\ FetchFailed(acq_response)) =>
        /\ acq_result.ret # PyNone
        /\ acq_result.ret = SyntheticRecord(CleanStreamId(acq_stream_id), now)

CannedTestRecord ==
    PyDict([streamer_name |->
                PyStr(<<"T", "e", "s", "t", " ", "S", "t", "r", "e", "a", "m", "e", "r">>),
            likes |-> PyInt(150), viewers |-> PyInt(50),
            comments |-> PyInt(75), gifts |-> PyInt(10)])

\* C3: for the stream key "test", an acquisition made while the network
\* fetch fails returns the fixed record Test Streamer, 150, 50, 75, 10,
\* whatever the wall clock says.
C3_TestKeyCanned ==
    (Acquired /\ acq_stream_id = TestKey /\ acq_response.kind = "raise") =>
        acq_result.ret = CannedTestRecord

\* a step of the body raised: the fetch, the read of a blob whose stream
\* value is no dict, or the read of a count element without a digit
BodyRaised(stream_id, response) ==
    \/ response.kind = "raise"
    \/ /\ response.status = 200
       /\ IF UsableBlob(response.page.blob)
          THEN BlobStats(response.page.blob.d).exc
          ELSE \E el \in {response.page.likes_el, response.page.viewers_el,
                          response.page.comments_el, response.page.gifts_el} :
                   el # Absent /\ OnlyDigits(el.s) = <<>>

IsPrefix(s, t) == Len(s) <= Len(t) /\ SubSeq(t, 1, Len(s)) = s

UnknownShape(blob) ==
    /\ UsableBlob(blob)
    /\ "stream" \notin DOMAIN blob.d
    /\ "liveStream" \notin DOMAIN blob.d

\* what element-based extraction finds in an element, zero when the page
\* has no such element or the element holds no number
ElementValue(element) ==
    IF element # Absent /\ OnlyDigits(element.s) # <<>>
    THEN IntOf(OnlyDigits(element.s))
    ELSE 0

MetricElements(page) ==
    [likes |-> page.likes_el, viewers |-> page.viewers_el,
     comments |-> page.comments_el, gifts |-> page.gifts_el]

\* C15: when the decoded blob holds neither 'stream' nor 'liveStream',
\* scrape_jaco_data still returns a record: it carries the extracted
\* streamer name, and each metric is the value of the page's labelled
\* element when there is one, and zero otherwise.
C15_UnknownShapeUsesElements ==
    (/\ Acquired
     /\ acq_response.kind = "response"
     /\ acq_response.status = 200
     /\ UnknownShape(acq_response.page.blob)) =>
        /\ acq_result.ret.k = "dict"
        /\ Get(acq_result.ret.d, "streamer_name", PyNone)
               = PyStr(StreamerName(CleanStreamId(acq_stream_id), acq_response.page))
        /\ \A m \in MetricNames :
               Get(acq_result.ret.d, m, PyInt(0))
                   = PyInt(ElementValue(MetricElements(acq_response.page)[m]))

----------------------------------------------------------------------------
(* The session of app.py: script runs started by the user's widgets and   *)
(* by st.rerun().                                                          *)

Page(name_el, title, blob, likes_el) ==
    [name_el |-> name_el, title |-> title, blob |-> blob, likes_el |-> likes_el,
     viewers_el |-> Absent, comments_el |-> Absent, gifts_el |-> Absent]

NotFound == [kind |-> "response", error |-> "", status |-> 404, page |-> NoPage]

BobPage ==
    [kind |-> "response", error |-> "", status |-> 200,
     page |-> Page(Text(<<" ", "B", "o", "b", " ">>), Absent,
                   PyDict(Entry("stream", FullStream)), Absent)]

AppResponses == {NotFound, BobPage}

\* answers of the API status endpoint
ApiResponses ==
    {[kind |-> "raise", status |-> 0], [kind |-> "response", status |-> 200],
     [kind |-> "response", status |-> 503]}

TrackInputs == {<<>>, <<Host, "/", "a">>}

ManualEntries ==
    [stream_id : {<<>>, <<"a">>}, streamer_name : {<<"B", "o", "b">>},
     likes : {1}, viewers : {0}, comments : {0}, gifts : {0}]

\* positions of the frequency slider
Frequencies == {10, 60}

LastTwo(s) == IF Len(s) > 2 THEN SubSeq(s, Len(s) - 1, Len(s)) ELSE s

Init ==
    /\ AppIdle
    /\ now = 0
    /\ NormIdle /\ ProcIdle /\ AggIdle /\ AcqIdle

\* app.py 280-399: one run of the script at time t, started by the event:
\* the sidebar, the dashboard tab (its page request answered by response)
\* and, unless st.rerun() ended the run in the dashboard tab, the manual
\* entry tab.  A run that makes no page request in the dashboard tab is
\* taken once, with the first of the answers.
Run(event, response, auto, t) ==
    \E side \in {Sidebar(session_state, event, t)} :
    \E tab1 \in {DashboardTab(side.ss, response, t)} :
    \E sleep \in {SleepTime(tab1.ss, t, auto)} :
    \E tab2 \in {IF sleep = 0 /\ event.type = "manual"
                 THEN AddManualData(tab1.ss, event.entry, t)
                 ELSE tab1.ss} :
        /\ t <= MaxAppTime
        /\ tab1.calls # <<>> \/ response = NotFound
        /\ Len(tab2.data) <= MaxData
        /\ session_state' = tab2
        /\ calls' = side.calls \o tab1.calls
        /\ connected' = IF event.type = "check" THEN PyBool(side.ret) ELSE connected
        /\ auto_refresh' = auto
        /\ rerun' = sleep
        /\ refreshes' =
               IF tab1.calls # <<>>
               THEN LastTwo(Append(refreshes,
                        [at |-> t, update_frequency |-> side.ss.update_frequency]))
               ELSE refreshes
        /\ now' = t
        /\ UNCHANGED <<normVars, procVars, aggVars, acqVars>>

DashboardShown ==
    session_state.data # <<>> /\ Truthy(session_state.selected_stream)

\* lines 322-329
Track ==
    \E url \in TrackInputs, r1 \in AppResponses, r2 \in AppResponses :
        /\ url # <<>> \/ r1 = NotFound
        /\ Run([type |-> "track", url |-> url, response |-> r1], r2, auto_refresh, now)

\* lines 285-291
Check ==
    \E api \in ApiResponses, r1 \in AppResponses, r2 \in AppResponses :
        /\ ~CheckApiAvailable(api) \/ r1 = NotFound
        /\ Run([type |-> "check", api_response |-> api, response |-> r1],
               r2, auto_refresh, now)

\* lines 333-338
ChangeFrequency ==
    \E f \in Frequencies \ {session_state.update_frequency}, r2 \in AppResponses :
        Run([type |-> "frequency", update_freq |-> f], r2, auto_refresh, now)

\* lines 341-351: the download button, shown when the stream has records
Export ==
    /\ DashboardShown
    /\ \E i \in DOMAIN session_state.data :
           session_state.data[i].stream_id = session_state.selected_stream.s
    /\ \E r2 \in AppResponses : Run([type |-> "export"], r2, auto_refresh, now)

\* line 377: the checkbox of the dashboard tab
ToggleAutoRefresh ==
    /\ DashboardShown
    /\ \E r2 \in AppResponses : Run([type |-> "toggle"], r2, ~auto_refresh, now)

\* lines 395-399: the form of the manual entry tab, which the last run
\* showed only if it did not end in st.rerun()
ManualEntry ==
    /\ rerun = 0
    /\ \E entry \in ManualEntries, r2 \in AppResponses :
           Run([type |-> "manual", entry |-> entry], r2, auto_refresh, now)

\* lines 385-386: time.sleep(...) and st.rerun()
AutoRerun ==
    /\ rerun > 0
    /\ \E r2 \in AppResponses : Run([type |-> "auto"], r2, auto_refresh, now + rerun)

\* the wall clock while no rerun is scheduled
Wait ==
    /\ rerun = 0
    /\ now + 10 <= MaxAppTime
    /\ now' = now + 10
    /\ UNCHANGED <<normVars, procVars, aggVars, acqVars, appVars>>

Next ==
    \/ Track
    \/ Check
    \/ ChangeFrequency
    \/ Export
    \/ ToggleAutoRefresh
    \/ ManualEntry
    \/ AutoRerun
    \/ Wait

Spec == Init /\ [][Next]_vars


----------------------------------------------------------------------------
(* Properties of the session *)

\* C11: the stored time series is append-only: whatever the user or the
\* scheduler does (track, automatic rerun, manual entry, connection check,
\* export, frequency change), the records stored before the step are a
\* prefix of the records stored after it.
C11_AppendOnly ==
    [][IsPrefix(session_state.data, session_state'.data)]_vars

\* an acquired record followed by a manual one
C11_Witness ==
    /\ Len(session_state.data) = 2
    /\ session_state.data[1].likes = PyInt(4)
    /\ session_state.data[2].likes = PyInt(1)
    /\ session_state.data[1].timestamp < session_state.data[2].timestamp

\* C12: no script run calls scrape_jaco_data, nor process_stream_data after
\* it, with an empty stream key: not the track button on an empty input,
\* not the reruns that follow a manual entry with an empty stream id.
C12_NoEmptyKeyAcquired ==
    \A i \in DOMAIN calls :
        (calls[i].fn = "scrape_jaco_data" \/ calls[i].normalized)
            => calls[i].stream_id # <<>>

\* a manual entry with an empty stream id, and a later run finding the
\* interval elapsed
C12_Witness ==
    /\ session_state.data # <<>>
    /\ session_state.selected_stream = PyStr(<<>>)
    /\ session_state.last_update # PyNone
    /\ now - session_state.last_update.v >= session_state.update_frequency
    /\ session_state.update_frequency = 10
    /\ calls = <<>>

\* the last script run acquired for the selected stream: the track button
\* on a non-empty key, or a refresh of the dashboard tab
AcquiredForSelected ==
    /\ Truthy(session_state.selected_stream)
    /\ calls # <<>>
    /\ calls[1].fn = "scrape_jaco_data"
    /\ calls[1].stream_id = session_state.selected_stream.s

\* C13: once track has selected a non-empty stream key and auto-refresh is
\* on, the polling goes on whatever the acquisition returned: the script
\* run ends in st.rerun(), the only thing that starts the next acquisition
\* without the user.  A state with no rerun scheduled is one the session
\* stays in for ever, with no further acquisition.
C13_PollingGoesOn ==
    (AcquiredForSelected /\ auto_refresh) => rerun > 0

\* C14: two consecutive acquisitions of the dashboard tab are at least
\* update_frequency seconds apart, also when the earlier one returned no
\* record.
C14_RefreshInterval ==
    Len(refreshes) = 2 =>
        refreshes[2].at - refreshes[1].at >= refreshes[2].update_frequency

\* the last script run made a connection check and acquired nothing else
CheckedLast ==
    /\ connected # PyNone
    /\ calls # <<>>
    /\ calls[1].fn = "check_api_available"
    /\ \A i \in DOMAIN calls :
           calls[i].fn = "scrape_jaco_data" => calls[i].stream_id = TestKey

\* C17: after check_connection the state is consistent: it returned True
\* exactly when connection_status is one of the two connected values, and
\* when it returned False connection_status is disconnected and using_api
\* and using_scraper are both False.
C17_ConnectionConsistent ==
    CheckedLast =>
        /\ connected = PyBool(TRUE)
               <=> session_state.connection_status \in {ConnectedApi, ConnectedScraper}
        /\ connected = PyBool(FALSE)
               => /\ session_state.connection_status = Disconnected
                  /\ ~session_state.using_api
                  /\ ~session_state.using_scraper


----------------------------------------------------------------------------
(* A session while the network is down: every update_data ends in the      *)
(* synthetic record.                                                       *)

\* 00:00:00, 00:59:00 and 23:59:00, in seconds after midnight of day 0
OfflineStarts == {0, 59 * 60, (23 * 3600) + (59 * 60)}

Delays == {10, 60}

Failures ==
    {[kind |-> "raise", error |-> e, status |-> 0, page |-> NoPage]
        : e \in {"timeout", "connection"}}

InitOffline ==
    /\ session_state = [NewSession EXCEPT !.selected_stream = PyStr(<<"a">>)]
    /\ calls = <<>>
    /\ connected = PyNone
    /\ auto_refresh = TRUE
    /\ rerun = 0
    /\ refreshes = <<>>
    /\ now \in OfflineStarts
    /\ NormIdle /\ ProcIdle /\ AggIdle /\ AcqIdle

\* update_data for the selected stream while every page request raises
OfflineUpdate ==
    /\ Len(session_state.data) < MaxData
    /\ \E response \in Failures :
           \E updated \in {UpdateData(session_state, session_state.selected_stream.s,
                                      response, now)} :
               /\ session_state' = updated.ss
               /\ calls' = updated.calls
    /\ UNCHANGED <<now, connected, auto_refresh, rerun, refreshes,
                   normVars, procVars, aggVars, acqVars>>

\* the wall clock between two updates
Elapse ==
    /\ session_state.last_update # PyNone
    /\ \E d \in Delays :
           /\ (now + d) - session_state.last_update.v <= MaxOffline
           /\ now' = now + d
    /\ UNCHANGED <<normVars, procVars, aggVars, acqVars, appVars>>

OfflineNext == OfflineUpdate \/ Elapse

SpecOffline == InitOffline /\ [][OfflineNext]_vars

DayOf(t) == t \div 86400

\* C16: of two synthetic records of the same calendar day, the later one
\* has likes, viewers, comments and gifts at least as large as the earlier
\* one.
C16_SyntheticGrows ==
    \A i \in DOMAIN session_state.data : \A j \in DOMAIN session_state.data :
        (/\ i < j
         /\ session_state.data[i].timestamp <= session_state.data[j].timestamp
         /\ DayOf(session_state.data[i].timestamp) = DayOf(session_state.data[j].timestamp))
        => /\ session_state.data[i].likes.v <= session_state.data[j].likes.v
           /\ session_state.data[i].viewers.v <= session_state.data[j].viewers.v
           /\ session_state.data[i].comments.v <= session_state.data[j].comments.v
           /\ session_state.data[i].gifts.v <= session_state.data[j].gifts.v

====
